---- MODULE Spec2Model ----
(***************************************************************************)
(* GitDiffWidget (packages/git/src/browser/diff/git-diff-widget.tsx):      *)
(* the list of changed files of a revision range, navigation between the   *)
(* files and the hunks of their diffs, and the URIs of the diffs it opens. *)
(***************************************************************************)
EXTENDS Integers, Sequences, FiniteSets, Bags, TLC

\* ------------------------------------------------------------------ bounds
MaxDiffs == 2      \* git.diff calls in flight
MaxLookups == 2    \* editorManager.getByUri calls in flight
MaxOpens == 2      \* editorManager.open calls in flight
MaxHunks == 2      \* hunks of a diff editor

\* ------------------------------------------------------- JavaScript values
Undefined == [tag |-> "undefined"]
Str(s) == [tag |-> "string", val |-> s]
Num(n) == [tag |-> "number", val |-> n]

\* typeof v
TypeOf(v) == v.tag

\* the string a value becomes as an operand of  string + value
ToStr(v) ==
    CASE v.tag = "undefined" -> "undefined"
      [] v.tag = "string" -> v.val
      [] v.tag = "number" -> ToString(v.val)

\* the truth value of v in  if (v)
Truthy(v) ==
    CASE v.tag = "undefined" -> FALSE
      [] v.tag = "string" -> v.val # ""
      [] v.tag = "number" -> v.val # 0
      [] OTHER -> TRUE

\* -------------------------------------------------------------------- URIs
GIT_RESOURCE_SCHEME == "gitrev"

\* new URI(s): s is a string "<scheme>://<path>", kept as its two parts
NewURI(s) == [scheme |-> s[1], path |-> s[2], query |-> ""]
withScheme(u, scheme) == [u EXCEPT !.scheme = scheme]
withQuery(u, query) == [u EXCEPT !.query = query]

\* DiffUris.encode(left, right): one URI of scheme 'diff' holding both
DiffUrisEncode(left, right) == [scheme |-> "diff", left |-> left, right |-> right]

\* ------------------------------------------------- GitFileChange, options
GitFileChange(uri, oldUri, status) ==
    [tag |-> "object", uri |-> uri, oldUri |-> oldUri, status |-> status]

FileA == <<"file", "/a.txt">>
FileB == <<"file", "/b.txt">>
FileC == <<"file", "/c.txt">>

Range(fromRev, toRev) == [tag |-> "object", fromRevision |-> fromRev, toRevision |-> toRev]
DiffOptions(uri, range) == [tag |-> "object", uri |-> uri, range |-> range]

OptWorkingTree == DiffOptions("/ws", Undefined)
OptOffset == DiffOptions("/ws", Range(Num(3), Undefined))
OptCommit == DiffOptions("/ws", Range(Undefined, Str("abc123")))
OptRange == DiffOptions("/ws/src", Range(Str("v1"), Str("abc123")))
OptZero == DiffOptions("/ws/src", Range(Num(0), Str("abc123")))

AllOptions == {OptWorkingTree, OptOffset, OptCommit, OptRange, OptZero}

\* git.diff(repository, {range, uri}): the changed files of the options
GitDiff(o) ==
    CASE o = OptWorkingTree ->
            << GitFileChange(FileA, Undefined, "Modified"),
               GitFileChange(FileB, Undefined, "New"),
               GitFileChange(FileC, Undefined, "Deleted") >>
      [] o = OptOffset ->
            << GitFileChange(FileB, Str(FileA), "Renamed"),
               GitFileChange(FileC, Undefined, "Modified") >>
      [] o = OptCommit ->
            << GitFileChange(FileC, Str(FileA), "Copied"),
               GitFileChange(FileA, Undefined, "Deleted") >>
      [] o = OptRange ->
            << GitFileChange(FileB, Undefined, "New") >>
      [] o = OptZero -> << >>

\* ---------------------------------------------------------------- getters
toRevision(o) == IF Truthy(o.range) THEN o.range.toRevision ELSE o.range
fromRevision(o) == IF Truthy(o.range) THEN o.range.fromRevision ELSE o.range

\* getUriToOpen that builds the 'from' URI from the entry's own URI always
getUriToOpenOwnUri(change, o) ==
    LET uri == NewURI(change.uri)
        fromURI ==
            IF fromRevision(o) # Undefined
            THEN IF TypeOf(fromRevision(o)) # "number"
                 THEN withQuery(withScheme(uri, GIT_RESOURCE_SCHEME), fromRevision(o).val)
                 ELSE withQuery(withScheme(uri, GIT_RESOURCE_SCHEME),
                                ToStr(toRevision(o)) \o "~" \o ToStr(fromRevision(o)))
            ELSE withQuery(withScheme(uri, GIT_RESOURCE_SCHEME),
                           ToStr(toRevision(o)) \o "~1")
        toURI ==
            IF Truthy(toRevision(o))
            THEN withQuery(withScheme(uri, GIT_RESOURCE_SCHEME), toRevision(o).val)
            ELSE uri
    IN  IF change.status = "Deleted" THEN fromURI
        ELSE IF change.status = "New" THEN toURI
        ELSE DiffUrisEncode(fromURI, toURI)

\* ------------------------------------------------------------ getUriToOpen
getUriToOpen(change, o) ==
    LET uri == NewURI(change.uri)
        base == IF Truthy(change.oldUri) THEN NewURI(change.oldUri.val) ELSE uri
        fromURI ==
            IF fromRevision(o) # Undefined
            THEN IF TypeOf(fromRevision(o)) # "number"
                 THEN withQuery(withScheme(base, GIT_RESOURCE_SCHEME), fromRevision(o).val)
                 ELSE withQuery(withScheme(base, GIT_RESOURCE_SCHEME),
                                ToStr(toRevision(o)) \o "~" \o ToStr(fromRevision(o)))
            ELSE withQuery(withScheme(base, GIT_RESOURCE_SCHEME),
                           ToStr(toRevision(o)) \o "~1")
        toURI ==
            IF Truthy(toRevision(o))
            THEN withQuery(withScheme(uri, GIT_RESOURCE_SCHEME), toRevision(o).val)
            ELSE uri
    IN  IF change.status = "Deleted" THEN fromURI
        ELSE IF change.status = "New" THEN toURI
        ELSE DiffUrisEncode(fromURI, toURI)


\* ------------------------------------------------------------------- state
VARIABLES
    options,          \* this.options: undefined until the first setContent
    fileChangeNodes,  \* this.fileChangeNodes, and this.gitNodes once rendered
    sel,              \* index of the node whose selected flag is set, or -1
    repository,       \* what repositoryProvider.findRepositoryOrSelected finds
    diffs,            \* git.diff calls in flight: the options each was made for
    lookups,          \* editorManager.getByUri calls in flight
    opens,            \* editorManager.open calls in flight
    editors,          \* the open editors: their URI and their navigator's hunk
    lastOp,           \* the handler that ran last and what it was given ("other":
                      \* a click, Enter, or the editor manager)
    lastMove          \* the last move of the selection by a navigation, if the
                      \* selection has not been set otherwise since

vars == <<options, fileChangeNodes, sel, repository, diffs, lookups, opens,
          editors, lastOp, lastMove>>

NoMove == [dir |-> "none"]

\* render(): this.gitNodes = this.fileChangeNodes
gitNodes == fileChangeNodes

\* a call dropped when the same call is in flight already
AddOnce(bag, call) == IF BagIn(call, bag) THEN bag ELSE bag (+) SetToBag({call})

\* the calls in flight are a bag: they are answered in any order
Add(bag, call) == bag (+) SetToBag({call})
Remove(bag, call) == bag (-) SetToBag({call})

\* ------------------------------------------------ GitNavigableListWidget
\* indexOfSelected: -1 when no node is selected
indexOfSelected == sel

\* getSelected(): the selected node, or undefined
getSelected == IF sel = -1 THEN Undefined ELSE gitNodes[sel + 1]

\* GitFileChangeNode.is(node)
IsGitFileChangeNode(node) == node # Undefined

\* ------------------------------------------------------------- navigators
\* the hunks the navigator of an editor has: none unless it is a diff editor
Hunks(uri) == IF uri.scheme = "diff" THEN MaxHunks ELSE 0
canNavigate(e) == Hunks(e.uri) > 0
hasNext(e) == e.pos + 1 < Hunks(e.uri)
hasPrevious(e) == e.pos > 0

IsOpen(uri) == \E e \in editors : e.uri = uri
EditorOf(uri) == CHOOSE e \in editors : e.uri = uri

\* --------------------------------------------------- selection arithmetic
\* selectNextNode() that stops at the last node
selectNextNodeStuck(idx, n) ==
    IF idx >= 0 /\ idx < n - 1 THEN idx + 1
    ELSE IF n > 0 /\ idx = -1 THEN 0
    ELSE idx

\* selectNextNode(): the index selected afterwards (idx, n before)
selectNextNode(idx, n) ==
    IF idx >= 0 /\ idx < n - 1 THEN idx + 1
    ELSE IF n > 0 /\ (idx = -1 \/ idx = n - 1) THEN 0
    ELSE idx

\* selectPreviousNode() that stops at the first node
selectPreviousNodeNoWrap(idx, n) ==
    IF idx > 0 THEN idx - 1 ELSE idx

\* selectPreviousNode(): the index selected afterwards
selectPreviousNode(idx, n) ==
    IF idx > 0 THEN idx - 1
    ELSE IF idx = 0 THEN n - 1
    ELSE idx

\* openChange(change, options): the editorManager.open call it makes
openChange(change) == [uri |-> getUriToOpen(change, options), change |-> change]

\* openSelected() that opens the first node whatever is selected
openSelectedFirst(idx) ==
    IF idx # -1 THEN Add(opens, openChange(fileChangeNodes[1])) ELSE opens

\* openSelected(), for the selection idx: the open calls in flight afterwards
openSelected(idx) ==
    IF idx # -1 THEN Add(opens, openChange(gitNodes[idx + 1])) ELSE opens

\* ----------------------------------------------------------------- Init
Init ==
    /\ options = Undefined
    /\ fileChangeNodes = << >>
    /\ sel = -1
    /\ repository \in BOOLEAN
    /\ diffs = EmptyBag
    /\ lookups = EmptyBag
    /\ opens = EmptyBag
    /\ editors = {}
    /\ lastOp = [op |-> "init"]
    /\ lastMove = NoMove

\* ---------------------------------------------------------- list content
\* setContent(o) that fetches for the options it replaces
doSetContentStale(o) ==
    /\ options' = o
    /\ IF repository
       THEN /\ BagCardinality(diffs) < MaxDiffs
            /\ diffs' = Add(diffs, IF Truthy(options) THEN options ELSE o)
       ELSE diffs' = diffs

\* the body of setContent(o) up to its await
doSetContent(o) ==
    /\ options' = o
    /\ IF repository
       THEN /\ BagCardinality(diffs) < MaxDiffs
            /\ diffs' = Add(diffs, o)
       ELSE diffs' = diffs

\* setContent(o), called by the owner of the widget
setContent ==
    \E o \in AllOptions :
        /\ doSetContent(o)
        /\ lastOp' = [op |-> "setContent", arg |-> o]
        /\ UNCHANGED <<fileChangeNodes, sel, repository, lookups, opens, editors, lastMove>>

\* the rest of setContent once git.diff has answered the call made for o
diffDone ==
    \E o \in BagToSet(diffs) :
        /\ fileChangeNodes' = GitDiff(o)
        /\ sel' = -1
        /\ diffs' = Remove(diffs, o)
        /\ lastOp' = [op |-> "diffDone", arg |-> o]
        /\ lastMove' = NoMove
        /\ UNCHANGED <<options, repository, lookups, opens, editors>>

\* gitWatcher.onGitEvent
onGitEvent ==
    /\ IF Truthy(options)
       THEN doSetContent(options)
       ELSE UNCHANGED <<options, diffs>>
    /\ lastOp' = [op |-> "onGitEvent"]
    /\ UNCHANGED <<fileChangeNodes, sel, repository, lookups, opens, editors, lastMove>>

\* the label-change events: the set of URIs each affects
LabelEvents == {{}, {NewURI(FileA)}, {NewURI(FileB), NewURI(FileC)}}

\* affectsFiles that does not look at the event
affectsAny(event) == Len(fileChangeNodes) >= 0

affectsFiles(event) ==
    \E i \in 1..Len(fileChangeNodes) : NewURI(fileChangeNodes[i].uri) \in event

\* labelProvider.onDidChange
onDidChange ==
    \E event \in LabelEvents :
        /\ IF Truthy(options) /\ affectsFiles(event)
           THEN doSetContent(options)
           ELSE UNCHANGED <<options, diffs>>
        /\ lastOp' = [op |-> "onDidChange", arg |-> event]
        /\ UNCHANGED <<fileChangeNodes, sel, repository, lookups, opens, editors, lastMove>>

\* the repository provider gains or loses its repository
repositoryChange ==
    /\ repository' = ~repository
    /\ lastOp' = [op |-> "repositoryChange"]
    /\ UNCHANGED <<options, fileChangeNodes, sel, diffs, lookups, opens, editors, lastMove>>

\* -------------------------------------------------------------- navigation
\* the getByUri call navigateRight and navigateLeft make for the selected node
getByUri(dir, selected) ==
    [dir |-> dir, selected |-> selected, uri |-> getUriToOpen(selected, options)]

\* navigateRight(), up to the promise of getByUri
navigateRight ==
    /\ IF Truthy(getSelected) /\ IsGitFileChangeNode(getSelected)
       THEN /\ BagCardinality(lookups) < MaxLookups
            /\ lookups' = Add(lookups, getByUri("next", getSelected))
            /\ UNCHANGED <<sel, opens, lastMove>>
       ELSE IF Len(gitNodes) > 0
       THEN /\ sel' = 0
            /\ opens' = openSelected(0)
            /\ BagCardinality(opens') <= MaxOpens
            /\ lastMove' = NoMove
            /\ UNCHANGED lookups
       ELSE UNCHANGED <<sel, opens, lookups, lastMove>>
    /\ lastOp' = [op |-> "navigateRight"]
    /\ UNCHANGED <<options, fileChangeNodes, repository, diffs, editors>>

\* navigateLeft() that starts at the last node when none is selected, as
\* navigateRight() starts at the first
navigateLeftSeeds ==
    /\ IF IsGitFileChangeNode(getSelected)
       THEN /\ BagCardinality(lookups) < MaxLookups
            /\ lookups' = Add(lookups, getByUri("previous", getSelected))
            /\ UNCHANGED <<sel, opens>>
       ELSE IF Len(gitNodes) > 0
       THEN /\ sel' = Len(gitNodes) - 1
            /\ opens' = openSelected(Len(gitNodes) - 1)
            /\ BagCardinality(opens') <= MaxOpens
            /\ UNCHANGED lookups
       ELSE UNCHANGED <<sel, opens, lookups>>
    /\ lastOp' = [op |-> "navigateLeft"]
    /\ UNCHANGED <<options, fileChangeNodes, repository, diffs, editors, lastMove>>

\* navigateLeft(), up to the promise of getByUri
navigateLeft ==
    /\ IF IsGitFileChangeNode(getSelected)
       THEN /\ BagCardinality(lookups) < MaxLookups
            /\ lookups' = Add(lookups, getByUri("previous", getSelected))
       ELSE UNCHANGED lookups
    /\ lastOp' = [op |-> "navigateLeft"]
    /\ UNCHANGED <<options, fileChangeNodes, sel, repository, diffs, opens, editors, lastMove>>

\* the .then callback of navigateRight and navigateLeft, for getByUri call l
getByUriDone ==
    \E l \in BagToSet(lookups) :
        LET n == Len(gitNodes)
            idx == IF l.dir = "next" THEN selectNextNode(indexOfSelected, n)
                   ELSE selectPreviousNode(indexOfSelected, n)
            further == IF l.dir = "next" THEN hasNext(EditorOf(l.uri))
                       ELSE hasPrevious(EditorOf(l.uri))
            step == IF l.dir = "next" THEN 1 ELSE -1
            done(outcome) == [op |-> "getByUriDone", dir |-> l.dir, outcome |-> outcome,
                              selected |-> l.selected, after |-> lastMove]
        IN  /\ lookups' = Remove(lookups, l)
            /\ IF IsOpen(l.uri)
               THEN IF canNavigate(EditorOf(l.uri)) /\ further
                    THEN /\ editors' = (editors \ {EditorOf(l.uri)})
                                \cup {[uri |-> l.uri, pos |-> EditorOf(l.uri).pos + step]}
                         /\ lastOp' = done("hunk")
                         /\ lastMove' = NoMove
                         /\ UNCHANGED <<sel, opens>>
                    ELSE /\ sel' = idx
                         /\ opens' = openSelected(idx)
                         /\ lastOp' = done("select")
                         /\ lastMove' = [dir |-> l.dir, from |-> sel]
                         /\ UNCHANGED editors
               ELSE /\ opens' = Add(opens, openChange(l.selected))
                    /\ lastOp' = done("reveal")
                    /\ lastMove' = NoMove
                    /\ UNCHANGED <<sel, editors>>
            /\ BagCardinality(opens') <= MaxOpens
            /\ UNCHANGED <<options, fileChangeNodes, repository, diffs>>

\* a click on item i of the list: selectNode(change)
selectNode ==
    \E i \in 0..(Len(gitNodes) - 1) :
        /\ sel' = i
        /\ lastOp' = [op |-> "other"]
        /\ lastMove' = NoMove
        /\ UNCHANGED <<options, fileChangeNodes, repository, diffs, lookups, opens, editors>>

\* a double click on item i of the list: revealChange(change)
revealChange ==
    \E i \in 0..(Len(gitNodes) - 1) :
        /\ opens' = Add(opens, openChange(gitNodes[i + 1]))
        /\ BagCardinality(opens') <= MaxOpens
        /\ lastOp' = [op |-> "other"]
        /\ UNCHANGED <<options, fileChangeNodes, sel, repository, diffs, lookups, editors, lastMove>>

\* Enter on the list: handleListEnter()
handleListEnter ==
    /\ opens' = openSelected(sel)
    /\ BagCardinality(opens') <= MaxOpens
    /\ lastOp' = [op |-> "other"]
    /\ UNCHANGED <<options, fileChangeNodes, sel, repository, diffs, lookups, editors, lastMove>>

\* ---------------------------------------------------------- editor manager
\* an editorManager.open call is answered: the editor of its URI is open
openDone ==
    \E call \in BagToSet(opens) :
        /\ editors' = IF IsOpen(call.uri) THEN editors
                      ELSE editors \cup {[uri |-> call.uri, pos |-> 0]}
        /\ opens' = Remove(opens, call)
        /\ lastOp' = [op |-> "other"]
        /\ UNCHANGED <<options, fileChangeNodes, sel, repository, diffs, lookups, lastMove>>

\* the user closes an editor
closeEditor ==
    \E e \in editors :
        /\ editors' = editors \ {e}
        /\ lastOp' = [op |-> "other"]
        /\ UNCHANGED <<options, fileChangeNodes, sel, repository, diffs, lookups, opens, lastMove>>

\* ------------------------------------------------------------ specification
Next ==
    \/ setContent
    \/ diffDone
    \/ onGitEvent
    \/ onDidChange
    \/ repositoryChange
    \/ navigateRight
    \/ navigateLeft
    \/ getByUriDone
    \/ selectNode
    \/ revealChange
    \/ handleListEnter
    \/ openDone
    \/ closeEditor

Spec == Init /\ [][Next]_vars

\* the list of one set of options, fetched and shown, and the user at the list
InitNav ==
    /\ options \in AllOptions
    /\ fileChangeNodes = GitDiff(options)
    /\ sel = -1
    /\ repository = TRUE
    /\ diffs = EmptyBag
    /\ lookups = EmptyBag
    /\ opens = EmptyBag
    /\ editors = {}
    /\ lastOp = [op |-> "diffDone", arg |-> options]
    /\ lastMove = NoMove

NextNav ==
    \/ navigateRight
    \/ navigateLeft
    \/ getByUriDone
    \/ selectNode
    \/ revealChange
    \/ handleListEnter
    \/ openDone
    \/ closeEditor

SpecNav == InitNav /\ [][NextNav]_vars

\* the owner and the watchers alone: the list is fetched, nobody navigates
NextContent ==
    \/ setContent
    \/ diffDone
    \/ onGitEvent
    \/ onDidChange
    \/ repositoryChange

SpecContent == Init /\ [][NextContent]_vars

\* the owner and the watchers while a repository is found
InitFetch == Init /\ repository = TRUE

NextFetch ==
    \/ setContent
    \/ diffDone
    \/ onGitEvent
    \/ onDidChange

SpecFetch == InitFetch /\ [][NextFetch]_vars

\* Next Change again and again, each once the one before has completed
navigateRightIdle ==
    /\ lookups = EmptyBag
    /\ opens = EmptyBag
    /\ navigateRight

\* the same list, with editors the user opened earlier at some hunk
InitRight ==
    /\ options \in AllOptions
    /\ fileChangeNodes = GitDiff(options)
    /\ sel = -1
    /\ repository = TRUE
    /\ diffs = EmptyBag
    /\ lookups = EmptyBag
    /\ opens = EmptyBag
    /\ editors \in
         { E \in SUBSET { [uri |-> getUriToOpen(fileChangeNodes[i], options), pos |-> p] :
                            i \in 1..Len(fileChangeNodes), p \in 0..(MaxHunks - 1) } :
             \A e \in E : (e.pos = 0 \/ e.pos < Hunks(e.uri))
                            /\ (\A f \in E : f.uri = e.uri => f = e) }
    /\ lastOp = [op |-> "diffDone", arg |-> options]
    /\ lastMove = NoMove

NextRight ==
    \/ navigateRightIdle
    \/ getByUriDone
    \/ openDone

SpecRight ==
    /\ InitRight
    /\ [][NextRight]_vars
    /\ WF_vars(navigateRightIdle)
    /\ WF_vars(getByUriDone)
    /\ WF_vars(openDone)

\* ================================================================== claims
\* the index of a node of the list, and whether it is one
InList(change) == \E i \in 1..Len(gitNodes) : gitNodes[i] = change
IndexOf(change) == (CHOOSE i \in 1..Len(gitNodes) : gitNodes[i] = change) - 1

\* the neighbour of index i in a list of n, around the ends
Adjacent(i, dir, n) ==
    IF dir = "next" THEN (IF i = n - 1 THEN 0 ELSE i + 1)
    ELSE (IF i = 0 THEN n - 1 ELSE i - 1)

\* the open calls a step makes, and the getByUri call it answers
Issued == { c \in BagToSet(opens') : CopiesIn(c, opens') > CopiesIn(c, opens) }
Answered == CHOOSE l \in BagToSet(lookups) : lookups' = lookups (-) SetToBag({l})

NonEmptyOptions == { o \in AllOptions : Len(GitDiff(o)) > 0 }

\* C1: with nothing selected at first and Next Change invoked again and again,
\* each time after the one before has completed, the selection only ever
\* changes from unset to 0, from i to i+1 and from the last index to 0, and
\* from every index it does reach the next one.
C1_VisitsInOrder ==
    /\ [][sel' # sel => sel' = (sel + 1) % Len(gitNodes)]_vars
    /\ \A o \in NonEmptyOptions : \A i \in -1..(Len(GitDiff(o)) - 1) :
          (options = o /\ sel = i) ~> (sel = (i + 1) % Len(GitDiff(o)))

C1_Wrapped ==
    /\ Len(gitNodes) >= 3
    /\ lastOp.op = "getByUriDone" /\ lastOp.dir = "next" /\ lastOp.outcome = "select"
    /\ lastMove = [dir |-> "next", from |-> Len(gitNodes) - 1]
    /\ sel = 0
    /\ \A i \in 1..Len(gitNodes) : IsOpen(getUriToOpen(gitNodes[i], options))

\* C2: a Next that moved the selection along the list from index i, followed
\* by a Previous that moved it along the list too, leaves index i selected;
\* from the last index the selection goes to 0 and back to the last index.
C2_RoundTrip ==
    ( /\ lastOp.op = "getByUriDone" /\ lastOp.dir = "previous" /\ lastOp.outcome = "select"
      /\ lastOp.after.dir = "next" /\ lastOp.after.from >= 0 )
    => sel = lastOp.after.from

C2_BoundaryRoundTrip ==
    /\ Len(gitNodes) >= 2
    /\ lastOp.op = "getByUriDone" /\ lastOp.dir = "previous" /\ lastOp.outcome = "select"
    /\ lastOp.after = [dir |-> "next", from |-> Len(gitNodes) - 1]
    /\ sel = Len(gitNodes) - 1

\* the revision query the claim C3 expects on the 'from' URI
ExpectedFromQuery(o) ==
    LET to == IF toRevision(o) = Undefined THEN "HEAD" ELSE toRevision(o).val
    IN  CASE fromRevision(o).tag = "string" -> fromRevision(o).val
          [] fromRevision(o).tag = "number" -> to \o "~" \o ToString(fromRevision(o).val)
          [] OTHER -> to \o "~1"

FromQuery(uri) == IF uri.scheme = "diff" THEN uri.left.query ELSE uri.query

\* C3: the 'from' URI of every diff the widget opens carries fromRevision itself
\* when that is a string, "<toRevision or HEAD>~N" when it is the number N and
\* "<toRevision or HEAD>~1" when it is absent.
C3_FromQuery ==
    [][\A c \in Issued :
          c.change.status # "New" => FromQuery(c.uri) = ExpectedFromQuery(options)]_vars

\* C4: what the widget opens is the 'from' URI alone for a deleted file, the
\* 'to' URI alone for an added one and a diff URI of both otherwise; the 'from'
\* URI is of oldUri when set and of the entry's URI otherwise, the 'to' URI is
\* of the entry's URI, with toRevision when present and as it is otherwise.
C4_UriByStatus ==
    [][\A c \in Issued :
          LET fromPath == IF c.change.oldUri # Undefined
                          THEN c.change.oldUri.val[2] ELSE c.change.uri[2]
              toURI == IF toRevision(options) # Undefined
                       THEN [scheme |-> "gitrev", path |-> c.change.uri[2],
                             query |-> toRevision(options).val]
                       ELSE [scheme |-> c.change.uri[1], path |-> c.change.uri[2],
                             query |-> ""]
              IsFrom(u) == u.scheme = "gitrev" /\ u.path = fromPath
          IN  CASE c.change.status = "Deleted" -> IsFrom(c.uri)
                [] c.change.status = "New" -> c.uri = toURI
                [] OTHER -> c.uri.scheme = "diff" /\ IsFrom(c.uri.left)
                                /\ c.uri.right = toURI]_vars

C4_RenameOpened ==
    \E c \in BagToSet(opens) :
        /\ c.change.status = "Renamed" /\ c.change.oldUri = Str(FileA)
        /\ c.uri.scheme = "diff"
        /\ c.uri.left.path = "/a.txt" /\ c.uri.right.path = "/b.txt"

\* C5, as claimed: every setContent that replaces active options makes exactly
\* one git.diff call for the new options, and when the call completes the list
\* is the one fetched for it.
C5_AlwaysRefetches ==
    [][ /\ (lastOp'.op = "setContent" /\ Truthy(options)) =>
              diffs' = diffs (+) SetToBag({lastOp'.arg})
        /\ lastOp'.op = "diffDone" => fileChangeNodes' = GitDiff(lastOp'.arg) ]_vars

\* C5, amended: setContent makes the options given the active ones; when a
\* repository is found it makes exactly one git.diff call for them and the list
\* is replaced by the answer when that call completes; when none is found it
\* makes no call and the list stays.
C5_RefetchesWithRepository ==
    [][ /\ lastOp'.op = "setContent" =>
              /\ options' = lastOp'.arg
              /\ fileChangeNodes' = fileChangeNodes
              /\ IF repository
                 THEN diffs' = diffs (+) SetToBag({lastOp'.arg})
                 ELSE diffs' = diffs
        /\ lastOp'.op = "diffDone" =>
              /\ BagIn(lastOp'.arg, diffs)
              /\ diffs' = diffs (-) SetToBag({lastOp'.arg})
              /\ fileChangeNodes' = GitDiff(lastOp'.arg) ]_vars

C5_ListKeptWithoutRepository ==
    /\ lastOp.op = "setContent" /\ options = lastOp.arg
    /\ ~repository
    /\ diffs = EmptyBag
    /\ fileChangeNodes # << >>
    /\ fileChangeNodes # GitDiff(options)

\* whether a label-change event affects a file of the list
Affects(event) == \E i \in 1..Len(fileChangeNodes) :
    [scheme |-> fileChangeNodes[i].uri[1], path |-> fileChangeNodes[i].uri[2],
     query |-> ""] \in event

\* C6, as claimed: with options active every git event and every label-change
\* event makes the widget fetch the list again (when a repository is found);
\* with none active neither does.
C6_EveryEventRefetches ==
    [][ lastOp'.op \in {"onGitEvent", "onDidChange"} =>
          IF Truthy(options)
          THEN repository => diffs' = diffs (+) SetToBag({options})
          ELSE diffs' = diffs ]_vars

\* C6, amended: with options active and a repository found, every git event
\* makes one git.diff call for the active options, and a label-change event
\* does exactly when it affects a file of the list; otherwise neither makes a
\* call; the options stay as they are.
C6_EventsRefetch ==
    [][ /\ lastOp'.op = "onGitEvent" =>
              /\ options' = options
              /\ IF Truthy(options) /\ repository
                 THEN diffs' = diffs (+) SetToBag({options})
                 ELSE diffs' = diffs
        /\ lastOp'.op = "onDidChange" =>
              /\ options' = options
              /\ IF Truthy(options) /\ repository /\ Affects(lastOp'.arg)
                 THEN diffs' = diffs (+) SetToBag({options})
                 ELSE diffs' = diffs ]_vars

C6_LabelChangeElsewhere ==
    /\ lastOp.op = "onDidChange"
    /\ Truthy(options) /\ repository
    /\ fileChangeNodes # << >>
    /\ ~Affects(lastOp.arg)
    /\ diffs = EmptyBag

\* C7: Previous Change with nothing selected changes nothing: no selection, no
\* getByUri call, no open call; Next Change with nothing selected and a list
\* that is not empty selects index 0 and opens that entry.
C7_PreviousUnsetNoOp ==
    [][ /\ (lastOp'.op = "navigateLeft" /\ sel = -1) =>
              /\ sel' = -1
              /\ lookups' = lookups /\ opens' = opens /\ editors' = editors
        /\ (lastOp'.op = "navigateRight" /\ sel = -1 /\ Len(gitNodes) > 0) =>
              /\ sel' = 0
              /\ lookups' = lookups
              /\ opens' = opens (+) SetToBag({openChange(gitNodes[1])}) ]_vars

C7_PreviousOnUnset ==
    /\ lastOp.op = "navigateLeft"
    /\ sel = -1
    /\ Len(gitNodes) > 0
    /\ lookups = EmptyBag /\ opens = EmptyBag

\* whether the editor of a getByUri call is open and its navigator can move on
CanMove(l) ==
    /\ IsOpen(l.uri)
    /\ canNavigate(EditorOf(l.uri))
    /\ IF l.dir = "next" THEN hasNext(EditorOf(l.uri)) ELSE hasPrevious(EditorOf(l.uri))

\* the selection moves to the neighbour and the neighbour's diff is opened
MovesAlongList(l) ==
    /\ sel' = Adjacent(sel, l.dir, Len(gitNodes))
    /\ opens' = opens (+) SetToBag({openChange(gitNodes[sel' + 1])})
    /\ editors' = editors

\* C8, as claimed: a navigation invoked with entry i selected moves within the
\* file only if an editor is open for the entry and its navigator has a further
\* hunk; in every other case, no editor being open included, the selection
\* moves to the neighbour and the neighbour's diff is opened.
C8_MovesUnlessHunk ==
    [][ (lastOp'.op = "getByUriDone" /\ InList(Answered.selected)
            /\ sel = IndexOf(Answered.selected)) =>
          /\ editors' # editors => CanMove(Answered)
          /\ ~CanMove(Answered) => MovesAlongList(Answered) ]_vars

\* C8, amended: as claimed when an editor is open for the entry; when none is,
\* the selection stays on entry i and the diff of entry i is opened.
C8_MovesUnlessHunkOrClosed ==
    [][ (lastOp'.op = "getByUriDone" /\ InList(Answered.selected)
            /\ sel = IndexOf(Answered.selected)) =>
          /\ editors' # editors => CanMove(Answered)
          /\ CanMove(Answered) => sel' = sel /\ opens' = opens
          /\ (IsOpen(Answered.uri) /\ ~CanMove(Answered)) => MovesAlongList(Answered)
          /\ ~IsOpen(Answered.uri) =>
                /\ sel' = sel
                /\ editors' = editors
                /\ opens' = opens (+) SetToBag({openChange(Answered.selected)}) ]_vars

C8_RevealedInPlace ==
    /\ lastOp.op = "getByUriDone" /\ lastOp.outcome = "reveal"
    /\ InList(lastOp.selected)
    /\ sel = IndexOf(lastOp.selected)
    /\ ~IsOpen(getUriToOpen(lastOp.selected, options))
    /\ BagIn(openChange(lastOp.selected), opens)

\* C9: a navigation invoked while getByUri calls are in flight makes its own
\* call, every call is answered on its own and no other step takes one away;
\* two Next Change invoked on the same entry can so open two different entries
\* and leave the selection two past it.
C9_NotDeduplicated ==
    [][ /\ (lastOp'.op = "navigateRight" /\ sel # -1) =>
              lookups' = lookups (+) SetToBag({[dir |-> "next", selected |-> gitNodes[sel + 1],
                                uri |-> getUriToOpen(gitNodes[sel + 1], options)]})
        /\ (lastOp'.op = "navigateLeft" /\ sel # -1) =>
              lookups' = lookups (+) SetToBag({[dir |-> "previous", selected |-> gitNodes[sel + 1],
                                uri |-> getUriToOpen(gitNodes[sel + 1], options)]})
        /\ lastOp'.op = "getByUriDone" =>
              BagCardinality(lookups') = BagCardinality(lookups) - 1
        /\ lastOp'.op \notin {"navigateRight", "navigateLeft", "getByUriDone"} =>
              lookups' = lookups ]_vars

C9_TwoOpensRaced ==
    /\ lastOp.op = "getByUriDone" /\ lastOp.dir = "next" /\ lastOp.outcome = "select"
    /\ InList(lastOp.selected)
    /\ lastOp.after = [dir |-> "next", from |-> IndexOf(lastOp.selected)]
    /\ sel = IndexOf(lastOp.selected) + 2
    /\ BagIn(openChange(gitNodes[sel]), opens)
    /\ BagIn(openChange(gitNodes[sel + 1]), opens)

\* C10: once no git.diff call is in flight the list is the one of the active
\* options, and the answer to a call made for other options than the active
\* ones leaves the list as it is.
C10_NoStaleList ==
    /\ []((diffs = EmptyBag /\ Truthy(options)) => fileChangeNodes = GitDiff(options))
    /\ [][(lastOp'.op = "diffDone" /\ lastOp'.arg # options)
            => fileChangeNodes' = fileChangeNodes]_vars

====
